---- MODULE Spec2Model ----
(***************************************************************************)
(* Model of go-enum's inline annotation configuration (package generator) *)
(* and of the enums declared in example/annotation.go.                    *)
(*                                                                         *)
(* A Go string is modelled as the sequence of its characters, each        *)
(* character a one-character TLA+ string, so that trimming, splitting,    *)
(* prefix tests and quote stripping are computed as the code computes     *)
(* them.  An interface{} value is a tagged record (nil, bool or string).  *)
(***************************************************************************)
EXTENDS Integers, Sequences, FiniteSets, TLC

VARIABLES
    ec,       \* the *EnumConfig the annotations are applied to
    prev,     \* history: ec as it was before the last ParseAnnotation call
    ann,      \* history: the directive handed to the last ParseAnnotation call
    err,      \* the error returned by the last ParseAnnotation call
    n,        \* number of ParseAnnotation calls made so far
    last,     \* history: per slot, the value last written by a successful directive
    rep,      \* history: the last call repeated the directive of the call before it
    prevErr,  \* history: the error of the call before the last one, when rep
    op,       \* the operation that ran last
    out       \* what the last read / naming / enum operation returned

vars == <<ec, prev, ann, err, n, last, rep, prevErr, op, out>>

----------------------------------------------------------------------------
(* Bounds of the model.                                                    *)

\* ParseAnnotation calls made on one configuration.
MaxCalls == 2

----------------------------------------------------------------------------
(* Strings.                                                                *)

\* The string literals of the program.
Lit ==
  [ noprefix   |-> <<"n","o","p","r","e","f","i","x">>,
    noiota     |-> <<"n","o","i","o","t","a">>,
    lower      |-> <<"l","o","w","e","r">>,
    nocase     |-> <<"n","o","c","a","s","e">>,
    marshal    |-> <<"m","a","r","s","h","a","l">>,
    sql        |-> <<"s","q","l">>,
    sqlint     |-> <<"s","q","l","i","n","t">>,
    flag       |-> <<"f","l","a","g">>,
    names      |-> <<"n","a","m","e","s">>,
    values     |-> <<"v","a","l","u","e","s">>,
    nocamel    |-> <<"n","o","c","a","m","e","l">>,
    ptr        |-> <<"p","t","r">>,
    sqlnullint |-> <<"s","q","l","n","u","l","l","i","n","t">>,
    sqlnullstr |-> <<"s","q","l","n","u","l","l","s","t","r">>,
    mustparse  |-> <<"m","u","s","t","p","a","r","s","e">>,
    forcelower |-> <<"f","o","r","c","e","l","o","w","e","r">>,
    forceupper |-> <<"f","o","r","c","e","u","p","p","e","r">>,
    nocomments |-> <<"n","o","c","o","m","m","e","n","t","s">>,
    noparse    |-> <<"n","o","p","a","r","s","e">>,
    prefix     |-> <<"p","r","e","f","i","x">>,
    true       |-> <<"t","r","u","e">>,
    false      |-> <<"f","a","l","s","e">> ]

\* unicode.IsSpace, restricted to the white space TLA+ strings can hold.
IsSpace(ch) == ch \in {" ", "\t", "\n", "\r", "\f"}

RECURSIVE TrimLeft(_)
TrimLeft(s) == IF s # <<>> /\ IsSpace(Head(s)) THEN TrimLeft(Tail(s)) ELSE s

RECURSIVE TrimRight(_)
TrimRight(s) ==
    IF s # <<>> /\ IsSpace(s[Len(s)]) THEN TrimRight(SubSeq(s, 1, Len(s) - 1)) ELSE s

\* strings.TrimSpace
TrimSpace(s) == TrimRight(TrimLeft(s))

\* strings.HasPrefix
HasPrefix(s, p) == Len(s) >= Len(p) /\ SubSeq(s, 1, Len(p)) = p

\* strings.Contains, for a one-character substring
Contains(s, ch) == \E i \in 1..Len(s) : s[i] = ch

\* strings.Index for a one-character substring, 1-based; 0 when absent
Index(s, ch) ==
    IF Contains(s, ch)
    THEN CHOOSE i \in 1..Len(s) : s[i] = ch /\ \A j \in 1..(i - 1) : s[j] # ch
    ELSE 0

\* strings.SplitN(s, sep, 2) for a one-character sep that s contains
SplitN2(s, ch) ==
    LET i == Index(s, ch)
    IN  <<SubSeq(s, 1, i - 1), SubSeq(s, i + 1, Len(s))>>

----------------------------------------------------------------------------
(* Values, slots and the configuration.                                    *)

\* interface{} values: nil, a bool, a string
NilV     == [kind |-> "nil",    b |-> FALSE, s |-> <<>>]
BoolV(x) == [kind |-> "bool",   b |-> x,     s |-> <<>>]
StrV(x)  == [kind |-> "string", b |-> FALSE, s |-> x]

\* The composite literal EnumConfigValue{Value: value, Valid: true}
EnumConfigValue_Invalid(value) == [Value |-> value, Valid |-> FALSE]

EnumConfigValue(value) == [Value |-> value, Valid |-> TRUE]

\* The zero EnumConfigValue
ZeroValue == [Value |-> NilV, Valid |-> FALSE]

BoolSlots ==
    { "NoPrefix", "NoIota", "LowercaseLookup", "CaseInsensitive", "Marshal",
      "SQL", "SQLInt", "Flag", "Names", "Values", "LeaveSnakeCase", "Ptr",
      "SQLNullInt", "SQLNullStr", "MustParse", "ForceLower", "ForceUpper",
      "NoComments", "NoParse" }

StringSlots == { "Prefix" }

Slots == BoolSlots \cup StringSlots

\* NewEnumConfig: every slot is the zero EnumConfigValue
NewEnumConfig == [f \in Slots |-> ZeroValue]

\* error values: nil, or the format string with its arguments
NilErr == <<>>

----------------------------------------------------------------------------
(* Option setters.  Each returns the configuration and the error.          *)

\* case "nocase" of setBoolOption
caseNocase_BothWays(c, value) ==
    [c EXCEPT !["CaseInsensitive"] = EnumConfigValue(BoolV(value)),
              !["LowercaseLookup"] = EnumConfigValue(BoolV(value))]

caseNocase(c, value) ==
    LET c1 == [c EXCEPT !["CaseInsensitive"] = EnumConfigValue(BoolV(value))]
    IN  IF value
        THEN [c1 EXCEPT !["LowercaseLookup"] = EnumConfigValue(BoolV(TRUE))]
        ELSE c1

\* case "forceupper" of setBoolOption
caseForceUpper_Exclusive(c, value) ==
    [c EXCEPT !["ForceUpper"] = EnumConfigValue(BoolV(value)),
              !["ForceLower"] = EnumConfigValue(BoolV(~value))]

caseForceUpper(c, value) ==
    [c EXCEPT !["ForceUpper"] = EnumConfigValue(BoolV(value))]

\* default case of setBoolOption
caseDefault(c, key) == [ec |-> c, err |-> <<"unknown annotation: @%s", key>>]

setBoolOption(c, key, value) ==
    LET v  == EnumConfigValue(BoolV(value))
        ok(c1) == [ec |-> c1, err |-> NilErr]
    IN  CASE key = Lit.noprefix   -> ok([c EXCEPT !["NoPrefix"] = v])
          [] key = Lit.noiota     -> ok([c EXCEPT !["NoIota"] = v])
          [] key = Lit.lower      -> ok([c EXCEPT !["LowercaseLookup"] = v])
          [] key = Lit.nocase     -> ok(caseNocase(c, value))
          [] key = Lit.marshal    -> ok([c EXCEPT !["Marshal"] = v])
          [] key = Lit.sql        -> ok([c EXCEPT !["SQL"] = v])
          [] key = Lit.sqlint     -> ok([c EXCEPT !["SQLInt"] = v])
          [] key = Lit.flag       -> ok([c EXCEPT !["Flag"] = v])
          [] key = Lit.names      -> ok([c EXCEPT !["Names"] = v])
          [] key = Lit.values     -> ok([c EXCEPT !["Values"] = v])
          [] key = Lit.nocamel    -> ok([c EXCEPT !["LeaveSnakeCase"] = v])
          [] key = Lit.ptr        -> ok([c EXCEPT !["Ptr"] = v])
          [] key = Lit.sqlnullint -> ok([c EXCEPT !["SQLNullInt"] = v])
          [] key = Lit.sqlnullstr -> ok([c EXCEPT !["SQLNullStr"] = v])
          [] key = Lit.mustparse  -> ok([c EXCEPT !["MustParse"] = v])
          [] key = Lit.forcelower -> ok([c EXCEPT !["ForceLower"] = v])
          [] key = Lit.forceupper -> ok(caseForceUpper(c, value))
          [] key = Lit.nocomments -> ok([c EXCEPT !["NoComments"] = v])
          [] key = Lit.noparse    -> ok([c EXCEPT !["NoParse"] = v])
          [] OTHER                -> caseDefault(c, key)

\* a setter that assigns before it looks at the key
setStringOption_AssignFirst(c, key, value) ==
    LET c1 == [c EXCEPT !["Prefix"] = EnumConfigValue(StrV(value))]
    IN  CASE key = Lit.prefix -> [ec |-> c1, err |-> NilErr]
          [] OTHER ->
             [ec |-> c1, err |-> <<"unknown annotation with value: @%s=%s", key, value>>]

\* a setter that appends to the prefix already there
setStringOption_Append(c, key, value) ==
    CASE key = Lit.prefix ->
             [ec |-> [c EXCEPT !["Prefix"] =
                         EnumConfigValue(StrV(c["Prefix"].Value.s \o value))],
              err |-> NilErr]
      [] OTHER ->
             [ec |-> c, err |-> <<"unknown annotation with value: @%s=%s", key, value>>]

setStringOption(c, key, value) ==
    CASE key = Lit.prefix ->
             [ec |-> [c EXCEPT !["Prefix"] = EnumConfigValue(StrV(value))],
              err |-> NilErr]
      [] OTHER ->
             [ec |-> c, err |-> <<"unknown annotation with value: @%s=%s", key, value>>]

----------------------------------------------------------------------------
(* ParseAnnotation.                                                        *)

\* value[0] and value[len(value)-1] are the same quote character
Quoted(value) ==
    /\ Len(value) >= 2
    /\ \/ value[1] = "\"" /\ value[Len(value)] = "\""
       \/ value[1] = "'" /\ value[Len(value)] = "'"

\* value = value[1 : len(value)-1] when quoted
StripQuotes_Keep(value) == value

StripQuotes(value) ==
    IF Quoted(value) THEN SubSeq(value, 2, Len(value) - 1) ELSE value

\* The grammar of ParseAnnotation: what the call comes down to, before any
\* setter runs.  act is "none" (empty annotation, return nil), "error" (no
\* marker), "bool" (setBoolOption(key, bval)) or "string"
\* (setStringOption(key, sval)).
Step(act, key, bval, sval, e) ==
    [act |-> act, key |-> key, bval |-> bval, sval |-> sval, err |-> e]

\* a grammar that looks for "=" before it looks for ":"
Classify_EqFirst(annotation) ==
    LET a0 == TrimSpace(annotation)
    IN  IF a0 = <<>> THEN Step("none", <<>>, FALSE, <<>>, NilErr)
        ELSE IF ~HasPrefix(a0, <<"@">>)
        THEN Step("error", <<>>, FALSE, <<>>, <<"annotation must start with @: %s", a0>>)
        ELSE
          LET a == Tail(a0)
          IN  IF Contains(a, "=")
              THEN LET parts == SplitN2(a, "=")
                       key   == TrimSpace(parts[1])
                       value == TrimSpace(parts[2])
                   IN  Step("string", key, FALSE, StripQuotes(value), NilErr)
              ELSE IF Contains(a, ":")
              THEN LET parts == SplitN2(a, ":")
                       key   == TrimSpace(parts[1])
                       value == TrimSpace(parts[2])
                   IN  IF value = Lit.true \/ value = Lit.false
                       THEN Step("bool", key, value = Lit.true, <<>>, NilErr)
                       ELSE Step("string", key, FALSE, StripQuotes(value), NilErr)
              ELSE Step("bool", a, TRUE, <<>>, NilErr)

Classify(annotation) ==
    LET a0 == TrimSpace(annotation)
    IN  IF a0 = <<>> THEN Step("none", <<>>, FALSE, <<>>, NilErr)
        ELSE IF ~HasPrefix(a0, <<"@">>)
        THEN Step("error", <<>>, FALSE, <<>>, <<"annotation must start with @: %s", a0>>)
        ELSE
          LET a == Tail(a0)
          IN  IF Contains(a, ":")
              THEN LET parts == SplitN2(a, ":")
                       key   == TrimSpace(parts[1])
                       value == TrimSpace(parts[2])
                   IN  IF value = Lit.true \/ value = Lit.false
                       THEN Step("bool", key, value = Lit.true, <<>>, NilErr)
                       ELSE Step("string", key, FALSE, StripQuotes(value), NilErr)
              ELSE IF Contains(a, "=")
              THEN LET parts == SplitN2(a, "=")
                       key   == TrimSpace(parts[1])
                       value == TrimSpace(parts[2])
                   IN  Step("string", key, FALSE, StripQuotes(value), NilErr)
              ELSE Step("bool", a, TRUE, <<>>, NilErr)

\* The returns of ParseAnnotation: the setter called, or the early return.
Dispatch(c, s) ==
    CASE s.act = "bool"   -> setBoolOption(c, s.key, s.bval)
      [] s.act = "string" -> setStringOption(c, s.key, s.sval)
      [] OTHER            -> [ec |-> c, err |-> s.err]

ParseAnnotation(c, annotation) == Dispatch(c, Classify(annotation))

----------------------------------------------------------------------------
(* The directives handed to ParseAnnotation.  A directive is kept as what  *)
(* its author wrote down (form, key, value, quoting, padding); Render is   *)
(* the text of it, which is all ParseAnnotation sees.                      *)

D(form, key, val, quote, pad) ==
    [form |-> form, key |-> key, val |-> val, quote |-> quote, pad |-> pad]

\* Text of a directive, as written in a comment in front of a type.
Render(d) ==
    LET q     == IF d.quote = "" THEN <<>> ELSE <<d.quote>>
        v     == q \o d.val \o q
        gap   == IF d.pad = "inner" THEN <<" ">> ELSE <<>>
        core  == CASE d.form = "bare"  -> <<"@">> \o d.key
                   [] d.form = "colon" -> <<"@">> \o d.key \o gap \o <<":">> \o gap \o v
                   [] d.form = "eq"    -> <<"@">> \o d.key \o gap \o <<"=">> \o gap \o v
                   [] OTHER            -> d.val
    IN  IF d.pad = "outer" THEN <<" ", "\t">> \o core \o <<" ">> ELSE core

\* The keys setBoolOption recognizes.
BoolKeys ==
    { Lit.noprefix, Lit.noiota, Lit.lower, Lit.nocase, Lit.marshal, Lit.sql,
      Lit.sqlint, Lit.flag, Lit.names, Lit.values, Lit.nocamel, Lit.ptr,
      Lit.sqlnullint, Lit.sqlnullstr, Lit.mustparse, Lit.forcelower,
      Lit.forceupper, Lit.nocomments, Lit.noparse }

Bogus == <<"b","o","g","u","s">>
My    == <<"M","y">>
Yes   == <<"y","e","s">>

\* @key, @key:true, @key:false for every boolean key
BoolDirectives ==
    { D("bare", k, <<>>, "", "none") : k \in BoolKeys }
    \cup { D("colon", k, v, "", "none") : k \in BoolKeys, v \in {Lit.true, Lit.false} }

\* the same with white space around the directive or around the separator
PaddedDirectives ==
    { D("bare", k, <<>>, "", "outer") : k \in {Lit.marshal, Lit.nocase} }
    \cup { D("colon", k, Lit.true, "", "inner") : k \in {Lit.marshal, Lit.nocase} }
    \cup { D("colon", k, Lit.false, "", "outer") : k \in {Lit.marshal, Lit.nocase} }
    \cup { D("eq", Lit.prefix, My, "\"", "inner"), D("colon", Lit.prefix, My, "", "outer") }

\* @prefix:My, @prefix:"My", @prefix='My', @prefix:"", @prefix=, @prefix:"true", ...
PrefixDirectives ==
    { D(f, Lit.prefix, v, q, "none") :
        f \in {"colon", "eq"}, v \in {My, <<>>}, q \in {"", "\"", "'"} }
    \cup { D("colon", Lit.prefix, Lit.true, "\"", "none"),
           D("eq", Lit.prefix, Lit.true, "", "none"),
           D("colon", Lit.prefix, <<"a", "=", "b">>, "", "none"),
           D("colon", Lit.prefix, <<"a", ":", "b">>, "", "none"),
           D("eq", Lit.prefix, <<"a", "=", "b">>, "", "none"),
           D("eq", Lit.prefix, <<"\"", "M", "y", "'">>, "", "none") }

\* a key used with the wrong kind of value
WrongKindDirectives ==
    { D("colon", Lit.marshal, Yes, "", "none"),
      D("eq", Lit.marshal, Lit.true, "", "none"),
      D("eq", Lit.nocase, My, "\"", "none"),
      D("bare", Lit.prefix, <<>>, "", "none"),
      D("colon", Lit.prefix, Lit.true, "", "none"),
      D("colon", Lit.prefix, Lit.false, "", "none"),
      D("colon", Lit.marshal, Lit.true, "\"", "none") }

\* keys no setter knows
UnknownDirectives ==
    { D("bare", Bogus, <<>>, "", "none"),
      D("colon", Bogus, Lit.true, "", "none"),
      D("colon", Bogus, My, "", "none"),
      D("eq", Bogus, My, "", "none") }

Raw(text) == D("raw", <<>>, text, "", "none")

\* text without the marker, empty text, and text no grammar form describes
RawDirectives ==
    { Raw(Lit.marshal),
      Raw(Lit.prefix \o <<"=">> \o My),
      Raw(<<>>),
      Raw(<<" ", "\t">>),
      Raw(<<"@">>),
      Raw(<<"@", " ">> \o Lit.marshal),
      Raw(<<"@">> \o Lit.prefix \o <<"=", "a", ":", "b">>),
      Raw(<<"@">> \o Lit.marshal \o <<":">> \o Lit.true \o <<"=", "b">>) }

Directives ==
    BoolDirectives \cup PaddedDirectives \cup PrefixDirectives
    \cup WrongKindDirectives \cup UnknownDirectives \cup RawDirectives

NoDirective == D("none", <<>>, <<>>, "", "none")

\* what each of the directives tried comes down to
Steps == [d \in Directives |-> Classify(Render(d))]

----------------------------------------------------------------------------
(* What a directive is meant to do, read off the directive grammar and the *)
(* option table, independently of the parser: used by the history          *)
(* variable last and by the properties.                                    *)

\* the slot each key names
SlotOf(key) ==
    CASE key = Lit.noprefix   -> "NoPrefix"
      [] key = Lit.noiota     -> "NoIota"
      [] key = Lit.lower      -> "LowercaseLookup"
      [] key = Lit.nocase     -> "CaseInsensitive"
      [] key = Lit.marshal    -> "Marshal"
      [] key = Lit.sql        -> "SQL"
      [] key = Lit.sqlint     -> "SQLInt"
      [] key = Lit.flag       -> "Flag"
      [] key = Lit.names      -> "Names"
      [] key = Lit.values     -> "Values"
      [] key = Lit.nocamel    -> "LeaveSnakeCase"
      [] key = Lit.ptr        -> "Ptr"
      [] key = Lit.sqlnullint -> "SQLNullInt"
      [] key = Lit.sqlnullstr -> "SQLNullStr"
      [] key = Lit.mustparse  -> "MustParse"
      [] key = Lit.forcelower -> "ForceLower"
      [] key = Lit.forceupper -> "ForceUpper"
      [] key = Lit.nocomments -> "NoComments"
      [] key = Lit.noparse    -> "NoParse"
      [] key = Lit.prefix     -> "Prefix"
      [] OTHER                -> "none"

IsBoolText(d) == d.quote = "" /\ d.val \in {Lit.true, Lit.false}

\* a directive of one of the three grammar forms with a recognized key and
\* a value of the key's kind
ValidDirective(d) ==
    \/ d.form = "bare" /\ d.key \in BoolKeys
    \/ d.form = "colon" /\ d.key \in BoolKeys /\ IsBoolText(d)
    \/ d.form = "colon" /\ d.key = Lit.prefix /\ ~IsBoolText(d)
    \/ d.form = "eq" /\ d.key = Lit.prefix

\* the value a valid directive carries
ValueOf(d) ==
    IF d.key = Lit.prefix THEN StrV(d.val)
    ELSE BoolV(d.form = "bare" \/ d.val = Lit.true)

\* the value a directive writes to slot f; NilV when it does not write f.
\* nocase with value true also writes LowercaseLookup.
Written(d, f) ==
    IF ~ValidDirective(d) THEN NilV
    ELSE IF f = SlotOf(d.key) THEN ValueOf(d)
    ELSE IF d.key = Lit.nocase /\ ValueOf(d) = BoolV(TRUE) /\ f = "LowercaseLookup"
    THEN BoolV(TRUE)
    ELSE NilV

----------------------------------------------------------------------------
(* The state machine.                                                      *)

NoOut == [kind |-> "none"]

Init ==
    /\ ec = NewEnumConfig
    /\ prev = NewEnumConfig
    /\ ann = NoDirective
    /\ err = NilErr
    /\ n = 0
    /\ last = [f \in Slots |-> NilV]
    /\ rep = FALSE
    /\ prevErr = NilErr
    /\ op = "NewEnumConfig"
    /\ out = NoOut

\* ec.ParseAnnotation(Render(d))
CallParseAnnotation(d) ==
    /\ n < MaxCalls
    /\ LET r == ParseAnnotation(ec, Render(d))
       IN  /\ ec' = r.ec
           /\ err' = r.err
           /\ last' = IF r.err = NilErr
                      THEN [f \in Slots |->
                              IF Written(d, f) # NilV THEN Written(d, f) ELSE last[f]]
                      ELSE last
    /\ prev' = ec
    /\ ann' = d
    /\ n' = n + 1
    /\ rep' = (n > 0 /\ d = ann)
    /\ prevErr' = IF n > 0 /\ d = ann THEN err ELSE NilErr
    /\ op' = "ParseAnnotation"
    /\ out' = NoOut

Next == \E d \in Directives : CallParseAnnotation(d)

Spec == Init /\ [][Next]_vars

----------------------------------------------------------------------------
(* Reading a slot: the per-type value over the global default.             *)

\* a getter that only lets a stored true through
GetBool_TrueOnly(v, defaultValue) ==
    IF v.Valid /\ v.Value.kind = "bool" /\ v.Value.b THEN TRUE ELSE defaultValue

GetBool(v, defaultValue) ==
    IF v.Valid /\ v.Value.kind = "bool" THEN v.Value.b ELSE defaultValue

\* a getter with the validity test inverted
GetString_InvertedValid(v, defaultValue) ==
    IF ~v.Valid /\ v.Value.kind = "string" THEN v.Value.s ELSE defaultValue

GetString(v, defaultValue) ==
    IF v.Valid /\ v.Value.kind = "string" THEN v.Value.s ELSE defaultValue

\* the slots read in SpecRead, and the directives applied before reading
ReadSlots == { "Marshal", "CaseInsensitive", "LowercaseLookup", "NoPrefix", "Prefix" }

ReadDirectives ==
    { D("bare", Lit.marshal, <<>>, "", "none"),
      D("colon", Lit.marshal, Lit.true, "", "none"),
      D("colon", Lit.marshal, Lit.false, "", "none"),
      D("bare", Lit.nocase, <<>>, "", "none"),
      D("colon", Lit.lower, Lit.false, "", "none"),
      D("colon", Lit.noprefix, Lit.false, "", "none"),
      D("colon", Lit.prefix, My, "\"", "none"),
      D("eq", Lit.prefix, <<>>, "\"", "none"),
      D("bare", Bogus, <<>>, "", "none") }

\* ec.<f>.GetBool(def)
CallGetBool(f, def) ==
    /\ op' = "GetBool"
    /\ out' = [kind |-> "bool", slot |-> f, def |-> def, res |-> GetBool(ec[f], def)]
    /\ prev' = ec
    /\ UNCHANGED <<ec, ann, err, n, last, rep, prevErr>>

\* ec.<f>.GetString(def)
CallGetString(f, def) ==
    /\ op' = "GetString"
    /\ out' = [kind |-> "string", slot |-> f, def |-> def, res |-> GetString(ec[f], def)]
    /\ prev' = ec
    /\ UNCHANGED <<ec, ann, err, n, last, rep, prevErr>>

NextRead ==
    \/ \E d \in ReadDirectives : CallParseAnnotation(d)
    \/ \E f \in ReadSlots, def \in BOOLEAN : CallGetBool(f, def)
    \/ \E f \in ReadSlots, def \in {<<>>, My} : CallGetString(f, def)

SpecRead == Init /\ [][NextRead]_vars

----------------------------------------------------------------------------
(* The enums of example/annotation.go.                                     *)

\* ENUM(...) value lists, in declaration order
AnnotationNumberValues_Duplicate ==
    <<<<"o","n","e">>, <<"t","w","o">>, <<"o","n","e">>>>

AnnotationStatusValues ==
    <<<<"p","e","n","d","i","n","g">>,
      <<"r","u","n","n","i","n","g">>,
      <<"c","o","m","p","l","e","t","e","d">>,
      <<"f","a","i","l","e","d">>>>

AnnotationColorValues ==
    <<<<"a","n","n","o","t","a","t","i","o","n","_","r","e","d">>,
      <<"a","n","n","o","t","a","t","i","o","n","_","g","r","e","e","n">>,
      <<"a","n","n","o","t","a","t","i","o","n","_","b","l","u","e">>>>

AnnotationNumberValues ==
    <<<<"o","n","e">>, <<"t","w","o">>, <<"t","h","r","e","e">>>>

\* the type declarations: name, underlying type, directives, values
Enums ==
    [ AnnotationStatus |->
        [ name   |-> <<"A","n","n","o","t","a","t","i","o","n","S","t","a","t","u","s">>,
          kind   |-> "string",
          annotations |-> << D("colon", Lit.marshal, Lit.true, "", "none"),
                             D("colon", Lit.sql, Lit.false, "", "none"),
                             D("colon", Lit.prefix, My, "\"", "none") >>,
          values |-> AnnotationStatusValues ],
      AnnotationColor |->
        [ name   |-> <<"A","n","n","o","t","a","t","i","o","n","C","o","l","o","r">>,
          kind   |-> "string",
          annotations |-> << D("bare", Lit.noprefix, <<>>, "", "none"),
                             D("bare", Lit.nocase, <<>>, "", "none") >>,
          values |-> AnnotationColorValues ],
      AnnotationNumber |->
        [ name   |-> <<"A","n","n","o","t","a","t","i","o","n","N","u","m","b","e","r">>,
          kind   |-> "int",
          annotations |-> << D("bare", Lit.marshal, <<>>, "", "none"),
                             D("bare", Lit.sql, <<>>, "", "none"),
                             D("bare", Lit.marshal, <<>>, "", "none") >>,
          values |-> AnnotationNumberValues ] ]

EnumNames == { "AnnotationStatus", "AnnotationColor", "AnnotationNumber" }

\* the configuration of a type: its directives applied in order to a fresh one
RECURSIVE ApplyAll(_, _)
ApplyAll(c, ds) ==
    IF ds = <<>> THEN c
    ELSE ApplyAll(ParseAnnotation(c, Render(Head(ds))).ec, Tail(ds))

EnumConfigOf(e) == ApplyAll(NewEnumConfig, Enums[e].annotations)

----------------------------------------------------------------------------
(* Letter case.                                                            *)

LowerLetters == <<"a","b","c","d","e","f","g","h","i","j","k","l","m","n","o","p","q","r","s","t","u","v","w","x","y","z">>

UpperLetters == <<"A","B","C","D","E","F","G","H","I","J","K","L","M","N","O","P","Q","R","S","T","U","V","W","X","Y","Z">>

LetterIndex(letters, ch) ==
    IF \E i \in 1..Len(letters) : letters[i] = ch
    THEN CHOOSE i \in 1..Len(letters) : letters[i] = ch
    ELSE 0

ToUpper(ch) ==
    IF LetterIndex(LowerLetters, ch) > 0
    THEN UpperLetters[LetterIndex(LowerLetters, ch)] ELSE ch

ToLower(ch) ==
    IF LetterIndex(UpperLetters, ch) > 0
    THEN LowerLetters[LetterIndex(UpperLetters, ch)] ELSE ch

\* strings.ToLower
ToLowerString(s) == [i \in 1..Len(s) |-> ToLower(s[i])]

----------------------------------------------------------------------------
(* Naming of the generated constants.                                      *)

\* underscore-delimited words, each capitalized, concatenated
RECURSIVE CamelFrom(_, _)
CamelFrom(s, atWordStart) ==
    IF s = <<>> THEN <<>>
    ELSE IF Head(s) = "_" THEN CamelFrom(Tail(s), TRUE)
    ELSE <<IF atWordStart THEN ToUpper(Head(s)) ELSE Head(s)>>
         \o CamelFrom(Tail(s), FALSE)

CamelCase(literal) == CamelFrom(literal, TRUE)

\* the generator-wide defaults a type's configuration is resolved against:
\* the go:generate line passes no naming flag
Global == [NoPrefix |-> FALSE, Prefix |-> <<>>, LeaveSnakeCase |-> FALSE]

\* the name of the constant generated for a literal of a type
deriveIdentifier(typeName, literal, c, g) ==
    LET noPrefix == GetBool(c["NoPrefix"], g.NoPrefix)
        prefix   == GetString(c["Prefix"], g.Prefix)
        snake    == GetBool(c["LeaveSnakeCase"], g.LeaveSnakeCase)
        word     == IF snake THEN literal ELSE CamelCase(literal)
    IN  IF noPrefix THEN word ELSE prefix \o typeName \o word

\* the directives applied before naming
NamingDirectives ==
    { D("bare", Lit.noprefix, <<>>, "", "none"),
      D("colon", Lit.noprefix, Lit.false, "", "none"),
      D("colon", Lit.prefix, My, "\"", "none"),
      D("eq", Lit.prefix, <<>>, "\"", "none"),
      D("bare", Lit.nocamel, <<>>, "", "none"),
      D("bare", Lit.nocase, <<>>, "", "none"),
      D("colon", Lit.marshal, Lit.true, "", "none"),
      D("colon", Lit.prefix, Lit.true, "", "none") }

\* name the constant of the i-th value of type e under the current directives
CallDeriveIdentifier(e, i, g) ==
    /\ i \in 1..Len(Enums[e].values)
    /\ op' = "deriveIdentifier"
    /\ out' = [kind |-> "ident", enum |-> e, literal |-> Enums[e].values[i],
               global |-> g,
               res |-> deriveIdentifier(Enums[e].name, Enums[e].values[i], ec, g)]
    /\ prev' = ec
    /\ UNCHANGED <<ec, ann, err, n, last, rep, prevErr>>

NextNaming ==
    \/ \E d \in NamingDirectives : CallParseAnnotation(d)
    \/ \E e \in EnumNames :
          \E i \in 1..Len(Enums[e].values) : CallDeriveIdentifier(e, i, Global)

SpecNaming == Init /\ [][NextNaming]_vars

----------------------------------------------------------------------------
(* The generated String, Parse<Type> and IsValid of an enum.               *)
(* A value of a string-backed enum is its string; a value of an int-backed *)
(* enum is its ordinal, counted from 0 in declaration order.               *)

\* ordinals tried on the int-backed enum: 0..MaxOrdinal, and 999
MaxOrdinal == 3

DigitChars == <<"0","1","2","3","4","5","6","7","8","9">>

\* decimal text of a natural number
RECURSIVE Digits(_)
Digits(v) ==
    IF v < 10 THEN <<DigitChars[v + 1]>>
    ELSE Digits(v \div 10) \o <<DigitChars[(v % 10) + 1]>>

IsNotAValid == <<" ","i","s"," ","n","o","t"," ","a"," ","v","a","l","i","d"," ">>

\* the value declared at position i of the value list
ValueAt(e, i) == IF Enums[e].kind = "int" THEN i - 1 ELSE Enums[e].values[i]

\* the zero value of the type
ZeroOf(e) == IF Enums[e].kind = "int" THEN 0 ELSE <<>>

\* x.String()
String(e, v) ==
    IF Enums[e].kind = "string" THEN v
    ELSE IF v \in 0..(Len(Enums[e].values) - 1) THEN Enums[e].values[v + 1]
    ELSE Enums[e].name \o <<"(">> \o Digits(v) \o <<")">>

\* Parse<Type>(input): first match in declaration order, folding case when
\* the type is case-insensitive
ParseEnum(e, input) ==
    LET fold     == GetBool(EnumConfigOf(e)["CaseInsensitive"], FALSE)
        same(i)  == IF fold
                    THEN ToLowerString(input) = ToLowerString(Enums[e].values[i])
                    ELSE input = Enums[e].values[i]
        hits     == {i \in 1..Len(Enums[e].values) : same(i)}
    IN  IF hits # {}
        THEN [val |-> ValueAt(e, CHOOSE i \in hits : \A j \in hits : i <= j),
              err |-> NilErr]
        ELSE [val |-> ZeroOf(e), err |-> input \o IsNotAValid \o Enums[e].name]

\* x.IsValid(): Parse would succeed
IsValid(e, v) == ParseEnum(e, String(e, v)).err = NilErr

\* strings handed to Parse<Type>
EnumInputs ==
    UNION { { Enums[e].values[i] : i \in 1..Len(Enums[e].values) } : e \in EnumNames }
    \cup { <<"i","n","v","a","l","i","d">>,
           <<"A","N","N","O","T","A","T","I","O","N","_","R","E","D">>,
           <<"A","n","N","o","T","a","T","i","O","n","_","R","e","D">>,
           <<"P","e","n","d","i","n","g">>,
           <<>> }

\* values of type e the operations are tried on
EnumValuesTried(e) ==
    IF Enums[e].kind = "int" THEN 0..MaxOrdinal \cup {999} ELSE EnumInputs

NotFrom == [set |-> FALSE]

\* the strings Parse<Type> is called with: the inputs above, and the result
\* of the String() call just made on a value of the type
ParseInputs(e) ==
    EnumInputs \cup (IF op = "String" /\ out.enum = e THEN {out.res} ELSE {})

CallString(e, v) ==
    /\ op' = "String"
    /\ out' = [kind |-> "str", enum |-> e, v |-> v, res |-> String(e, v)]
    /\ UNCHANGED <<ec, prev, ann, err, n, last, rep, prevErr>>

\* Parse<Type>(input); from records the value whose String() the input is,
\* when the call before was that String()
CallParse(e, input) ==
    /\ input \in ParseInputs(e)
    /\ op' = "Parse"
    /\ out' = [kind |-> "parse", enum |-> e, input |-> input,
               from |-> IF op = "String" /\ out.enum = e /\ input = out.res
                        THEN [set |-> TRUE, v |-> out.v] ELSE NotFrom,
               res |-> ParseEnum(e, input).val,
               err |-> ParseEnum(e, input).err]
    /\ UNCHANGED <<ec, prev, ann, err, n, last, rep, prevErr>>

CallIsValid(e, v) ==
    /\ op' = "IsValid"
    /\ out' = [kind |-> "valid", enum |-> e, v |-> v, res |-> IsValid(e, v)]
    /\ UNCHANGED <<ec, prev, ann, err, n, last, rep, prevErr>>

NextEnum ==
    \/ \E e \in EnumNames : \E v \in EnumValuesTried(e) : CallString(e, v)
    \/ \E e \in EnumNames : \E input \in ParseInputs(e) : CallParse(e, input)
    \/ \E e \in EnumNames : \E v \in EnumValuesTried(e) : CallIsValid(e, v)

SpecEnum == Init /\ [][NextEnum]_vars

----------------------------------------------------------------------------
(* Properties of the annotation parser, checked under Spec.                *)

Parsed == op = "ParseAnnotation"

MarshalTrue  == D("colon", Lit.marshal, Lit.true, "", "none")
MarshalFalse == D("colon", Lit.marshal, Lit.false, "", "none")
NocaseBare   == D("bare", Lit.nocase, <<>>, "", "none")
NocaseFalse  == D("colon", Lit.nocase, Lit.false, "", "none")
LowerFalse   == D("colon", Lit.lower, Lit.false, "", "none")
ForceLowerBare == D("bare", Lit.forcelower, <<>>, "", "none")
ForceUpperBare == D("bare", Lit.forceupper, <<>>, "", "none")

\* the configuration after ParseAnnotation(d) on c
ApplyOne(c, d) == ParseAnnotation(c, Render(d)).ec

\* the configuration after ParseAnnotation(d1) and then ParseAnnotation(d2) on c
ApplyTwo(c, d1, d2) == ApplyOne(ApplyOne(c, d1), d2)

\* C1: last directive wins.  Every slot some successfully applied directive
\* wrote (nocase with value true writes LowercaseLookup as well) is Valid and
\* holds the value of the last directive that wrote it; @marshal:true followed
\* by @marshal:false leaves Marshal Valid with Value false.
C1_LastDirectiveWins ==
    /\ \A f \in Slots : last[f] # NilV => ec[f] = [Value |-> last[f], Valid |-> TRUE]
    /\ (/\ Parsed /\ ann = MarshalFalse
        /\ prev["Marshal"] = [Value |-> BoolV(TRUE), Valid |-> TRUE])
       => ec["Marshal"] = [Value |-> BoolV(FALSE), Valid |-> TRUE]

\* @marshal:true has been applied and @marshal:false after it
C1_Witness ==
    /\ n = 2 /\ Parsed /\ err = NilErr /\ ann = MarshalFalse
    /\ prev = ApplyOne(NewEnumConfig, MarshalTrue)
    /\ last["Marshal"] = BoolV(FALSE)

\* C2: whenever ParseAnnotation returns an error, every slot of the
\* configuration is what it was before the call.
C2_ErrorLeavesConfigUnchanged ==
    (Parsed /\ err # NilErr) => ec = prev

\* a directive with an unknown key and a value failed on a configuration
\* that already had a slot set
C2_Witness ==
    /\ Parsed /\ err # NilErr /\ n = 2
    /\ prev # NewEnumConfig
    /\ ann = D("colon", Bogus, My, "", "none")

\* C3 as claimed: a valid directive applied to a fresh configuration sets
\* exactly one slot, Valid with the parsed value, and leaves all others unset.
C3_ExactlyOneSlotSet ==
    (Parsed /\ n = 1 /\ ValidDirective(ann)) =>
        /\ err = NilErr
        /\ ec = [f \in Slots |->
                   IF f = SlotOf(ann.key)
                   THEN [Value |-> ValueOf(ann), Valid |-> TRUE]
                   ELSE ZeroValue]

\* C3 as amended: a valid directive applied to a fresh configuration sets the
\* slot of its key, Valid with the parsed value, and leaves all other slots
\* unset, except that nocase with value true also sets LowercaseLookup Valid
\* with Value true.
C3_OneSlotOrCascade ==
    (Parsed /\ n = 1 /\ ValidDirective(ann)) =>
        /\ err = NilErr
        /\ ec = [f \in Slots |->
                   IF Written(ann, f) # NilV
                   THEN [Value |-> Written(ann, f), Valid |-> TRUE]
                   ELSE ZeroValue]
        /\ Cardinality({f \in Slots : ec[f].Valid}) =
              IF ann.key = Lit.nocase /\ ValueOf(ann) = BoolV(TRUE) THEN 2 ELSE 1

\* the legacy form @prefix = "My" has been applied to a fresh configuration
C3_Witness ==
    /\ Parsed /\ n = 1
    /\ ann = D("eq", Lit.prefix, My, "\"", "inner")
    /\ ValidDirective(ann)

\* C4: nocase with value true sets CaseInsensitive true and LowercaseLookup
\* Valid with Value true; @nocase:false sets CaseInsensitive false and leaves
\* LowercaseLookup exactly as it was.
C4_NocaseCascadeOneWay ==
    (Parsed /\ ValidDirective(ann) /\ ann.key = Lit.nocase) =>
        /\ err = NilErr
        /\ IF ValueOf(ann) = BoolV(TRUE)
           THEN /\ ec["CaseInsensitive"] = [Value |-> BoolV(TRUE), Valid |-> TRUE]
                /\ ec["LowercaseLookup"] = [Value |-> BoolV(TRUE), Valid |-> TRUE]
           ELSE /\ ec["CaseInsensitive"] = [Value |-> BoolV(FALSE), Valid |-> TRUE]
                /\ ec["LowercaseLookup"] = prev["LowercaseLookup"]
        /\ \A f \in Slots \ {"CaseInsensitive", "LowercaseLookup"} : ec[f] = prev[f]

\* @nocase:false has been applied after LowercaseLookup had been set true
C4_Witness ==
    /\ Parsed /\ n = 2 /\ ann = NocaseFalse
    /\ prev["LowercaseLookup"] = [Value |-> BoolV(TRUE), Valid |-> TRUE]

\* C5: in every reachable configuration, CaseInsensitive set with value true
\* implies LowercaseLookup set with value true.
C5_NocaseImpliesLower ==
    ec["CaseInsensitive"] = [Value |-> BoolV(TRUE), Valid |-> TRUE]
        => ec["LowercaseLookup"] = [Value |-> BoolV(TRUE), Valid |-> TRUE]

\* C7: applying the same directive twice in a row yields the configuration
\* and the result of applying it once: for the call just made, when it
\* repeated the call before it, and for every directive applied twice to the
\* configuration reached.
C7_Idempotent ==
    /\ rep => (ec = prev /\ err = prevErr)
    /\ \A d \in Directives :
         LET once  == Dispatch(ec, Steps[d])
             twice == Dispatch(once.ec, Steps[d])
         IN  twice = once

\* a directive that sets a slot has been applied twice in a row
C7_Witness ==
    /\ rep /\ n = 2 /\ err = NilErr
    /\ ann = D("colon", Lit.prefix, My, "\"", "none")

----------------------------------------------------------------------------
(* Properties of reading a slot, checked under SpecRead.                   *)

\* C6: a slot read with the getter of its kind and the global value as
\* default returns the slot's own value whenever a directive has set it, an
\* explicit false included, and the supplied default when it is unset; the
\* read leaves the configuration as it was.
C6_LocalOverridesGlobal ==
    /\ (op = "GetBool" /\ out.slot \in BoolSlots) =>
          /\ out.res = IF ec[out.slot].Valid THEN ec[out.slot].Value.b ELSE out.def
          /\ out.res = IF last[out.slot] # NilV THEN last[out.slot].b ELSE out.def
    /\ (op = "GetString" /\ out.slot \in StringSlots) =>
          /\ out.res = IF ec[out.slot].Valid THEN ec[out.slot].Value.s ELSE out.def
          /\ out.res = IF last[out.slot] # NilV THEN last[out.slot].s ELSE out.def
    /\ op \in {"GetBool", "GetString"} => ec = prev

\* Marshal has been read with the global default true after @marshal:false
C6_Witness ==
    /\ op = "GetBool" /\ out.slot = "Marshal" /\ out.def = TRUE
    /\ last["Marshal"] = BoolV(FALSE)
    /\ ann = MarshalFalse

----------------------------------------------------------------------------
(* Properties of naming, checked under SpecNaming.                         *)

Named == op = "deriveIdentifier"

\* the options as the directives applied so far and the global defaults give them
ResolvedNoPrefix ==
    IF last["NoPrefix"] # NilV THEN last["NoPrefix"].b ELSE out.global.NoPrefix

ResolvedPrefix ==
    IF last["Prefix"] # NilV THEN last["Prefix"].s ELSE out.global.Prefix

ResolvedSnake ==
    IF last["LeaveSnakeCase"] # NilV THEN last["LeaveSnakeCase"].b
    ELSE out.global.LeaveSnakeCase

----------------------------------------------------------------------------
(* Properties of the generated enum methods, checked under SpecEnum.       *)

\* v is one of the declared values of e
Declared(e, v) == \E i \in 1..Len(Enums[e].values) : ValueAt(e, i) = v

\* the literals of e that s matches: exactly, or ignoring case for the type
\* annotated @nocase
MatchesAt(e, s) ==
    { i \in 1..Len(Enums[e].values) :
        IF e = "AnnotationColor"
        THEN ToLowerString(s) = ToLowerString(Enums[e].values[i])
        ELSE s = Enums[e].values[i] }

\* C10: for every declared value v, Parse(String(v)) succeeds and returns v;
\* an input that matches a literal parses to the first one in declaration
\* order; an input that matches none fails with "<input> is not a valid
\* <TypeName>", and IsValid is false exactly for the values whose text
\* matches none.
C10_ParseRoundTrip ==
    /\ (op = "Parse" /\ out.from.set /\ Declared(out.enum, out.from.v)) =>
          (out.err = NilErr /\ out.res = out.from.v)
    /\ (op = "Parse" /\ MatchesAt(out.enum, out.input) # {}) =>
          /\ out.err = NilErr
          /\ \E i \in MatchesAt(out.enum, out.input) :
                /\ \A j \in MatchesAt(out.enum, out.input) : i <= j
                /\ out.res = ValueAt(out.enum, i)
    /\ (op = "Parse" /\ MatchesAt(out.enum, out.input) = {}) =>
          out.err = out.input \o IsNotAValid \o Enums[out.enum].name
    /\ (op = "Parse" /\ out.enum = "AnnotationStatus"
          /\ out.input = <<"i","n","v","a","l","i","d">>) =>
          out.err = <<"i","n","v","a","l","i","d"," ","i","s"," ","n","o","t"," ","a"," ","v","a","l","i","d"," ","A","n","n","o","t","a","t","i","o","n","S","t","a","t","u","s">>
    /\ op = "IsValid" =>
          (out.res = FALSE <=> MatchesAt(out.enum, String(out.enum, out.v)) = {})

\* three of AnnotationNumber has been turned into its string and parsed back
C10_Witness ==
    /\ op = "Parse" /\ out.enum = "AnnotationNumber"
    /\ out.from.set /\ out.from.v = 2

----------------------------------------------------------------------------
(* Properties of the directive grammar, checked under Spec.                *)

\* the text after the marker of the directive just applied
Body == Tail(TrimSpace(Render(ann)))

\* the directive just applied has text that starts with the marker
Marked ==
    /\ Parsed
    /\ TrimSpace(Render(ann)) # <<>>
    /\ Head(TrimSpace(Render(ann))) = "@"

Has(s, ch) == ch \in {s[i] : i \in 1..Len(s)}

\* s cut at position i, which holds the separator: <<key, value>>, trimmed
CutAt(s, i) == <<TrimSpace(SubSeq(s, 1, i - 1)), TrimSpace(SubSeq(s, i + 1, Len(s)))>>

\* one pair of matching surrounding quotes taken off
Unquoted(v) ==
    IF Len(v) >= 2 /\ v[1] = v[Len(v)] /\ v[1] \in {"\"", "'"}
    THEN SubSeq(v, 2, Len(v) - 1)
    ELSE v

\* the call has had the effect and the result of one setter call on prev
ByBoolSetter(key, value) ==
    [ec |-> ec, err |-> err] = setBoolOption(prev, key, value)

ByStringSetter(key, value) ==
    [ec |-> ec, err |-> err] = setStringOption(prev, key, value)

UnknownDirectiveError ==
    /\ err # NilErr
    /\ err[1] \in {"unknown annotation: @%s", "unknown annotation with value: @%s=%s"}
    /\ ec = prev

PrefixEqAColonB == Raw(<<"@">> \o Lit.prefix \o <<"=", "a", ":", "b">>)

\* C11: one grammar form per directive, in fixed priority.  Text after the
\* marker that contains ":" is cut at the first ":", and goes to the boolean
\* setter when the value is literally true or false and to the string setter,
\* one pair of matching quotes stripped, otherwise; else text that contains
\* "=" is cut at the first "=" and goes to the string setter; else the whole
\* text is a boolean key set to true.  Text with both ":" and "=" is handled
\* as the ":" form only.  A boolean key with a string value, and prefix bare
\* or with the boolean true or false, end in an unknown-directive error.
C11_OneFormByPriority ==
    /\ (Marked /\ Has(Body, ":")) =>
          \E i \in 1..Len(Body) :
             /\ Body[i] = ":" /\ ~Has(SubSeq(Body, 1, i - 1), ":")
             /\ LET key   == CutAt(Body, i)[1]
                    value == CutAt(Body, i)[2]
                IN  IF value \in {Lit.true, Lit.false}
                    THEN ByBoolSetter(key, value = Lit.true)
                    ELSE ByStringSetter(key, Unquoted(value))
    /\ (Marked /\ ~Has(Body, ":") /\ Has(Body, "=")) =>
          \E i \in 1..Len(Body) :
             /\ Body[i] = "=" /\ ~Has(SubSeq(Body, 1, i - 1), "=")
             /\ ByStringSetter(CutAt(Body, i)[1], Unquoted(CutAt(Body, i)[2]))
    /\ (Marked /\ ~Has(Body, ":") /\ ~Has(Body, "=")) => ByBoolSetter(Body, TRUE)
    /\ (Parsed /\ ann = PrefixEqAColonB) =>
          /\ err = <<"unknown annotation with value: @%s=%s",
                     Lit.prefix \o <<"=", "a">>, <<"b">>>>
          /\ ec = prev
    /\ (Parsed /\ ann = D("colon", Lit.prefix, <<"a", "=", "b">>, "", "none")) =>
          /\ err = NilErr
          /\ ec = [prev EXCEPT !["Prefix"] = [Value |-> StrV(<<"a", "=", "b">>), Valid |-> TRUE]]
    /\ (Parsed /\ ann \in WrongKindDirectives) => UnknownDirectiveError

\* @prefix=a:b, which holds both separators, has been applied to a
\* configuration that already had a slot set
C11_Witness ==
    /\ Parsed /\ n = 2 /\ ann = PrefixEqAColonB
    /\ prev # NewEnumConfig

====
